---- MODULE Spec2Model ----
(***************************************************************************)
(* Model of src/app.py (Smart ATS): the completion client with its retry   *)
(* loop (get_gemini_response), the text extractor with its OCR fallback    *)
(* (input_pdf_text), the tolerant response parser (safe_json_parse) and    *)
(* the two Streamlit handlers (Evaluate Resume, Optimize Resume).          *)
(*                                                                         *)
(* Text.  A Python str is a sequence of atoms.  An atom is one character   *)
(* ("{", "}", "[", "]", the double quote, ":", ",", "%", "-", a digit, a   *)
(* space, a newline) or a word: a run of characters none of which is one   *)
(* of those, written as one TLA+ string ("JD Match", "N/A", "error").      *)
(* No word of the model contains another word, so substring tests on words *)
(* are tests on atoms.                                                     *)
(*                                                                         *)
(* Python values are records [t |-> type, v |-> payload].                  *)
(***************************************************************************)
EXTENDS Integers, Sequences, FiniteSets, TLC

\* ------------------------------------------------------------------ bounds

\* Longest arbitrary text handed to safe_json_parse.
MaxRaw == 4
\* Longest prose before and after an embedded JSON object.
MaxProse == 2
\* Longest "JD Match" field value.
MaxVal == 3
\* Most pages of an uploaded PDF.
MaxPages == 2
\* Largest retries argument of get_gemini_response that is tried.
MaxRetries == 3

\* ------------------------------------------------------------ Python values

PyNone == [t |-> "None", v |-> 0]
PyStr(s) == [t |-> "str", v |-> s]
PyInt(n) == [t |-> "int", v |-> n]
PyBool(b) == [t |-> "bool", v |-> b]
PyList(l) == [t |-> "list", v |-> l]
PyDict(f) == [t |-> "dict", v |-> f]

EmptyDict == [k \in {} |-> PyNone]

DictSet(f, k, x) == [y \in (DOMAIN f) \cup {k} |-> IF y = k THEN x ELSE f[y]]

\* bool(x)
Truthy(x) ==
    CASE x.t = "None" -> FALSE
      [] x.t = "str" -> x.v # <<>>
      [] x.t = "int" -> x.v # 0
      [] x.t = "bool" -> x.v
      [] x.t = "list" -> x.v # <<>>
      [] x.t = "dict" -> DOMAIN x.v # {}

\* ----------------------------------------------------------------- strings

Q == "\""
Whitespace == {" ", "\n"}
Digits == {"0", "1", "2", "3", "4", "5", "6", "7", "8", "9"}

DigitValue(c) ==
    CASE c = "0" -> 0 [] c = "1" -> 1 [] c = "2" -> 2 [] c = "3" -> 3
      [] c = "4" -> 4 [] c = "5" -> 5 [] c = "6" -> 6 [] c = "7" -> 7
      [] c = "8" -> 8 [] c = "9" -> 9

\* All texts of at most n atoms over the alphabet A.
Texts(A, n) == UNION {[1..k -> A] : k \in 0..n}

\* str.strip()
RECURSIVE LStrip(_)
LStrip(s) == IF s # <<>> /\ Head(s) \in Whitespace THEN LStrip(Tail(s)) ELSE s

RECURSIVE RStrip(_)
RStrip(s) ==
    IF s # <<>> /\ s[Len(s)] \in Whitespace
    THEN RStrip(SubSeq(s, 1, Len(s) - 1))
    ELSE s

Strip(s) == RStrip(LStrip(s))

\* str.replace(old, "") for a one-atom old
RECURSIVE Remove(_, _)
Remove(s, old) ==
    IF s = <<>> THEN <<>>
    ELSE IF Head(s) = old THEN Remove(Tail(s), old)
    ELSE <<Head(s)>> \o Remove(Tail(s), old)

\* The value of a run of decimal digits, most significant first.
RECURSIVE DecimalValue(_, _)
DecimalValue(s, acc) ==
    IF s = <<>> THEN acc
    ELSE DecimalValue(Tail(s), 10 * acc + DigitValue(Head(s)))

AllDigits(s) == \A i \in 1..Len(s) : s[i] \in Digits

\* int(s) of a str: optional sign, then one or more digits (surrounding
\* whitespace allowed).  [ok, val]; ok = FALSE is ValueError.
IntOfStr(s0) ==
    LET s == Strip(s0)
        signed == s # <<>> /\ Head(s) = "-"
        body == IF signed THEN Tail(s) ELSE s
    IN  IF body # <<>> /\ AllDigits(body)
        THEN [ok |-> TRUE,
              val |-> IF signed THEN 0 - DecimalValue(body, 0)
                      ELSE DecimalValue(body, 0)]
        ELSE [ok |-> FALSE, val |-> 0]

\* --------------------------------------------------------------- json.loads

JFail == [ok |-> FALSE, val |-> PyNone, pos |-> 0]
JOk(x, p) == [ok |-> TRUE, val |-> x, pos |-> p]

RECURSIVE SkipWs(_, _)
SkipWs(s, i) == IF i <= Len(s) /\ s[i] \in Whitespace THEN SkipWs(s, i + 1) ELSE i

\* First index >= i holding atom c, or 0.
RECURSIVE IndexFrom(_, _, _)
IndexFrom(s, c, i) ==
    IF i > Len(s) THEN 0
    ELSE IF s[i] = c THEN i
    ELSE IndexFrom(s, c, i + 1)

\* A string literal opening at s[i]: up to the next quote; a control
\* character (the newline) inside it is an error.
ParseString(s, i) ==
    LET j == IndexFrom(s, Q, i + 1)
    IN  IF j = 0 THEN JFail
        ELSE IF \E k \in (i + 1)..(j - 1) : s[k] = "\n" THEN JFail
        ELSE JOk(PyStr(SubSeq(s, i + 1, j - 1)), j + 1)

RECURSIVE DigitsEnd(_, _)
DigitsEnd(s, i) == IF i <= Len(s) /\ s[i] \in Digits THEN DigitsEnd(s, i + 1) ELSE i

\* -?(0|[1-9][0-9]*) at s[i]
ParseNumber(s, i) ==
    LET signed == s[i] = "-"
        b == IF signed THEN i + 1 ELSE i
    IN  IF b > Len(s) \/ ~(s[b] \in Digits) THEN JFail
        ELSE LET e == IF s[b] = "0" THEN b + 1 ELSE DigitsEnd(s, b)
                 n == DecimalValue(SubSeq(s, b, e - 1), 0)
             IN  JOk(PyInt(IF signed THEN 0 - n ELSE n), e)

RECURSIVE ParseValue(_, _)
RECURSIVE ParseMembers(_, _, _)
RECURSIVE ParseElements(_, _, _)

\* The members of an object from a key at s[i]; f holds the pairs so far
\* (a repeated key keeps its last value).
ParseMembers(s, i, f) ==
    IF i > Len(s) \/ s[i] # Q THEN JFail
    ELSE LET k == ParseString(s, i)
         IN  IF ~k.ok THEN JFail
             ELSE LET c == SkipWs(s, k.pos)
                  IN  IF c > Len(s) \/ s[c] # ":" THEN JFail
                      ELSE LET x == ParseValue(s, SkipWs(s, c + 1))
                           IN  IF ~x.ok THEN JFail
                               ELSE LET e == SkipWs(s, x.pos)
                                        g == DictSet(f, k.val.v, x.val)
                                    IN  IF e > Len(s) THEN JFail
                                        ELSE IF s[e] = "}" THEN JOk(PyDict(g), e + 1)
                                        ELSE IF s[e] = ","
                                             THEN ParseMembers(s, SkipWs(s, e + 1), g)
                                        ELSE JFail

\* The elements of an array from a value at s[i]; l holds those so far.
ParseElements(s, i, l) ==
    LET x == ParseValue(s, i)
    IN  IF ~x.ok THEN JFail
        ELSE LET e == SkipWs(s, x.pos)
                 m == Append(l, x.val)
             IN  IF e > Len(s) THEN JFail
                 ELSE IF s[e] = "]" THEN JOk(PyList(m), e + 1)
                 ELSE IF s[e] = "," THEN ParseElements(s, SkipWs(s, e + 1), m)
                 ELSE JFail

ParseValue(s, i) ==
    IF i > Len(s) THEN JFail
    ELSE IF s[i] = Q THEN ParseString(s, i)
    ELSE IF s[i] = "{"
         THEN LET j == SkipWs(s, i + 1)
              IN  IF j <= Len(s) /\ s[j] = "}" THEN JOk(PyDict(EmptyDict), j + 1)
                  ELSE ParseMembers(s, j, EmptyDict)
    ELSE IF s[i] = "["
         THEN LET j == SkipWs(s, i + 1)
              IN  IF j <= Len(s) /\ s[j] = "]" THEN JOk(PyList(<<>>), j + 1)
                  ELSE ParseElements(s, j, <<>>)
    ELSE IF s[i] = "null" THEN JOk(PyNone, i + 1)
    ELSE IF s[i] = "true" THEN JOk(PyBool(TRUE), i + 1)
    ELSE IF s[i] = "false" THEN JOk(PyBool(FALSE), i + 1)
    ELSE IF s[i] = "-" \/ s[i] \in Digits THEN ParseNumber(s, i)
    ELSE JFail

\* json.loads(s): one value between optional whitespace, nothing after it.
\* ok = FALSE is json.JSONDecodeError.
JsonLoads(s) ==
    LET x == ParseValue(s, SkipWs(s, 1))
    IN  IF x.ok /\ SkipWs(s, x.pos) = Len(s) + 1 THEN x ELSE JFail

\* ------------------------------------------------------------ safe_json_parse

\* Last index holding atom c, or 0.
RECURSIVE LastIndex(_, _, _)
LastIndex(s, c, i) ==
    IF i < 1 THEN 0
    ELSE IF s[i] = c THEN i
    ELSE LastIndex(s, c, i - 1)

NoMatch == [found |-> FALSE, group |-> <<>>]

\* The lazy pattern \{.*?\}: it stops at the first "}" instead of the last.
ReSearchBracesLazy(s) ==
    LET first == IndexFrom(s, "{", 1)
        close == IF first = 0 THEN 0 ELSE IndexFrom(s, "}", first + 1)
    IN  IF close # 0
        THEN [found |-> TRUE, group |-> SubSeq(s, first, close)]
        ELSE NoMatch

\* re.search(r"\{.*\}", s, re.DOTALL): the leftmost "{" that has a "}" after
\* it, and greedily everything up to the last "}".
ReSearchBraces(s) ==
    LET first == IndexFrom(s, "{", 1)
        last == LastIndex(s, "}", Len(s))
    IN  IF first # 0 /\ last > first
        THEN [found |-> TRUE, group |-> SubSeq(s, first, last)]
        ELSE NoMatch

\* The record with the trimmed text attached instead of the text as given.
ErrorRecordTrimmed(msg, response) ==
    PyDict(DictSet(DictSet(EmptyDict, <<"error">>, PyStr(<<msg>>)),
                   <<"raw">>, PyStr(Strip(response))))

ErrorRecord(msg, response) ==
    PyDict(DictSet(DictSet(EmptyDict, <<"error">>, PyStr(<<msg>>)),
                   <<"raw">>, PyStr(response)))

SafeJsonParse(response) ==
    LET direct == JsonLoads(response)
    IN  IF direct.ok THEN direct.val
        ELSE LET match == ReSearchBraces(response)
             IN  IF match.found
                 THEN LET inner == JsonLoads(match.group)
                      IN  IF inner.ok THEN inner.val
                          ELSE ErrorRecord("Failed to parse JSON", response)
                 ELSE ErrorRecord("Invalid response format", response)

\* -------------------------------------------------------------------- state

VARIABLES
    \* the widgets of the page (lines 164-165)
    jd, uploaded_file,
    \* st.session_state (lines 168-169), and which evaluation wrote it
    ss_resume_text, ss_jd, ss_origin,
    \* st.cache_data's entries for input_pdf_text (line 44)
    cache,
    \* the script's position, and the user event that started the run
    pc, event,
    \* the locals of the Evaluate handler, and what the run has displayed
    resume_text, response, parsed, rendered,
    \* what the run has done so far: extractions, OCR passes, prompts built
    n_extract, n_ocr, n_prompt,
    \* one call of get_gemini_response: its arguments, its loop counter, the
    \* service calls made, those that raised, the sleeps, the outcome of the
    \* last service call, and the value returned
    g_pc, g_prompt, g_json_mode, g_retries, g_attempt, g_calls, g_raised,
    g_sleeps, g_last, g_result,
    \* one call of safe_json_parse on prose + object + prose
    p_pre, p_obj, p_suf, p_pc, p_result

app_vars == <<jd, uploaded_file, ss_resume_text, ss_jd, ss_origin, cache, pc,
              event, resume_text, response, parsed, rendered, n_extract, n_ocr,
              n_prompt>>
g_vars == <<g_pc, g_prompt, g_json_mode, g_retries, g_attempt, g_calls,
            g_raised, g_sleeps, g_last, g_result>>
p_vars == <<p_pre, p_obj, p_suf, p_pc, p_result>>
vars == <<app_vars, g_vars, p_vars>>

\* ------------------------------------------------------- get_gemini_response

\* retries=3
DefaultRetries == 3

\* The error-prefixed strings; "(x)" stands for the cross mark U+274C.
GenerationErrorPrefix == "(x) Error generating response:"
OcrErrorPrefix == "(x) Error reading PDF (OCR failed):"

\* What the model is asked to return for an evaluation, and what it may
\* return instead.
JsonObject(key, value) == <<"{", Q, key, Q, ":">> \o value \o <<"}">>
JsonString(s) == <<Q>> \o s \o <<Q>>

FullEvaluation ==
    <<"{", Q, "JD Match", Q, ":", Q, "7", "2", "%", Q, ",",
      Q, "MissingKeywords", Q, ":", "[", Q, "Go", Q, "]", ",",
      Q, "Profile Summary", Q, ":", Q, "X", Q, "}">>

CompletionTexts ==
    { FullEvaluation,
      JsonObject("JD Match", JsonString(<<"8", "3", "%">>)),
      JsonObject("JD Match", JsonString(<<"N/A">>)),
      JsonObject("MissingKeywords", <<"5">>),
      JsonObject("error", JsonString(<<"quota">>)),
      <<"Here is the result:", "\n">> \o FullEvaluation \o <<"\n", "Thanks!">>,
      <<"5">>,
      JsonString(<<"text">>),
      <<"[", "]">>,
      <<"null">>,
      <<"Sorry, no.">>,
      <<>> }

\* One call of model.generate_content: it raises, or it returns a response
\* with its candidates (each the texts of its content parts) and its text
\* field (None or a str).
Raises(msg) == [raises |-> TRUE, msg |-> msg, candidates |-> <<>>, text |-> PyNone]
Returns(cands, text) == [raises |-> FALSE, msg |-> "", candidates |-> cands, text |-> text]

ServiceOutcomes ==
    {Raises("quota"), Raises("network")}
    \cup {Returns(<< <<t>> >>, PyStr(t)) : t \in CompletionTexts}
    \cup {Returns(<< << <<"first">>, <<"part 2">> >>, << <<"second">> >> >>,
                    PyStr(<<"first">>))}
    \cup {Returns(<< <<>> >>, x) : x \in {PyNone, PyStr(<<"top">>)}}
    \cup {Returns(<<>>, x) : x \in {PyNone, PyStr(<<>>), PyStr(<<"top">>)}}

GenerationError(msg) == PyStr(<<GenerationErrorPrefix, " ", msg>>)

\* The body of the loop (lines 26-42) on the outcome o of its service call:
\* return a value, or sleep and go round again.
AttemptResult(o, attempt, retries) ==
    LET except(msg) ==
            IF attempt < retries - 1
            THEN [kind |-> "retry", value |-> PyNone]
            ELSE [kind |-> "return", value |-> GenerationError(msg)]
    IN  IF o.raises THEN except(o.msg)
        ELSE IF o.candidates # <<>>
             THEN IF Head(o.candidates) # <<>>
                  THEN [kind |-> "return", value |-> PyStr(Head(Head(o.candidates)))]
                  ELSE except("list index out of range")
        ELSE [kind |-> "return",
              value |-> IF Truthy(o.text) THEN o.text ELSE PyStr(<<>>)]

NoOutcome == Returns(<<>>, PyNone)

\* get_gemini_response is entered.
GeminiCall(prompt, json_mode, retries) ==
    /\ g_pc' = "loop"
    /\ g_prompt' = prompt
    /\ g_json_mode' = json_mode
    /\ g_retries' = retries
    /\ g_attempt' = 0
    /\ g_calls' = 0
    /\ g_raised' = 0
    /\ g_sleeps' = 0
    /\ g_last' = NoOutcome
    /\ g_result' = PyNone

\* One turn of `for attempt in range(retries)`; with the range used up the
\* function falls off its end and returns None.
GeminiStep ==
    /\ g_pc = "loop"
    /\ IF g_attempt >= g_retries
       THEN /\ g_pc' = "done"
            /\ g_result' = PyNone
            /\ UNCHANGED <<g_attempt, g_calls, g_raised, g_sleeps, g_last>>
       ELSE \E o \in ServiceOutcomes :
                LET r == AttemptResult(o, g_attempt, g_retries)
                IN  /\ g_calls' = g_calls + 1
                    /\ g_raised' = IF o.raises THEN g_raised + 1 ELSE g_raised
                    /\ g_last' = o
                    /\ IF r.kind = "return"
                       THEN /\ g_pc' = "done"
                            /\ g_result' = r.value
                            /\ UNCHANGED <<g_attempt, g_sleeps>>
                       ELSE /\ g_sleeps' = g_sleeps + 1
                            /\ g_attempt' = g_attempt + 1
                            /\ UNCHANGED <<g_pc, g_result>>
    /\ UNCHANGED <<g_prompt, g_json_mode, g_retries>>
    /\ UNCHANGED <<app_vars, p_vars>>

\* ------------------------------------------------------------ input_pdf_text

\* An uploaded PDF, by what reading it gives: whether PdfReader accepts it,
\* what extract_text gives for each page (a str, None, or an exception),
\* whether rendering and recognition succeed, and the text recognised on
\* each image.  NoFile is the uploader's None.
NoFile == [present |-> FALSE, reader_ok |-> FALSE, pages |-> <<>>,
           ocr_ok |-> FALSE, images |-> <<>>]
Pdf(reader_ok, pages, ocr_ok, images) ==
    [present |-> TRUE, reader_ok |-> reader_ok, pages |-> pages,
     ocr_ok |-> ocr_ok, images |-> images]

PageRaises == [ok |-> FALSE, text |-> PyNone]
PageText(x) == [ok |-> TRUE, text |-> x]

\* text += page.extract_text() or ""
RECURSIVE ConcatPages(_)
ConcatPages(pages) ==
    IF pages = <<>> THEN <<>>
    ELSE (IF Truthy(Head(pages).text) THEN Head(pages).text.v ELSE <<>>)
         \o ConcatPages(Tail(pages))

\* text += pytesseract.image_to_string(img)
RECURSIVE ConcatImages(_)
ConcatImages(images) ==
    IF images = <<>> THEN <<>>
    ELSE Head(images) \o ConcatImages(Tail(images))

\* The direct stage returning text.strip() instead of text.
DirectStageStripped(doc) ==
    IF ~doc.reader_ok \/ (\E i \in 1..Len(doc.pages) : ~doc.pages[i].ok)
    THEN [kind |-> "fall", value |-> PyNone]
    ELSE LET text == ConcatPages(doc.pages)
         IN  IF Strip(text) # <<>>
             THEN [kind |-> "return", value |-> PyStr(Strip(text))]
             ELSE [kind |-> "fall", value |-> PyNone]

\* Lines 47-55: the text, if there is any; every exception is swallowed.
DirectStage(doc) ==
    IF ~doc.reader_ok \/ (\E i \in 1..Len(doc.pages) : ~doc.pages[i].ok)
    THEN [kind |-> "fall", value |-> PyNone]
    ELSE LET text == ConcatPages(doc.pages)
         IN  IF Strip(text) # <<>>
             THEN [kind |-> "return", value |-> PyStr(text)]
             ELSE [kind |-> "fall", value |-> PyNone]

\* The OCR stage without its try/except: the exception leaves the function.
OcrStageUnguarded(doc) ==
    IF doc.ocr_ok
    THEN [kind |-> "return", value |-> PyStr(ConcatImages(doc.images))]
    ELSE [kind |-> "raise", value |-> PyNone]

\* Lines 58-65: the recognised text, or the error string.
OcrStage(doc) ==
    IF doc.ocr_ok
    THEN [kind |-> "return", value |-> PyStr(ConcatImages(doc.images))]
    ELSE [kind |-> "return", value |-> PyStr(<<OcrErrorPrefix, " ", "tesseract failed">>)]

\* [kind, value, ocr]: kind = "raise" is an exception leaving the function.
InputPdfText(doc) ==
    LET direct == DirectStage(doc)
    IN  IF direct.kind # "fall"
        THEN [kind |-> direct.kind, value |-> direct.value, ocr |-> FALSE]
        ELSE LET fallback == OcrStage(doc)
             IN  [kind |-> fallback.kind, value |-> fallback.value, ocr |-> TRUE]

\* ------------------------------------------------------------------ prompts

\* input_prompt.format(text=resume_text, jd=jd)
EvaluationPrompt(text, j) ==
    <<"Hey Act Like a skilled ATS. Resume:">> \o text
    \o <<"Job Description:">> \o j \o <<"I want the response in JSON">>

\* The f-string of optimize_resume.
OptimizationPrompt(text, j) ==
    <<"You are a professional resume writer. Job Description:">> \o j
    \o <<"Current Resume:">> \o text \o <<"Return the improved resume text only.">>

\* ------------------------------------------------- rendering the evaluation

\* What a run has displayed: the Streamlit calls in order, whether the run
\* ended in an uncaught exception, and the value given to st.metric.
Blank == [shown |-> <<>>, crashed |-> FALSE, gauge |-> 0]
Shows(widgets) == [shown |-> widgets, crashed |-> FALSE, gauge |-> 0]
Crashes(widgets) == [shown |-> widgets, crashed |-> TRUE, gauge |-> 0]

Raised == [ok |-> FALSE, val |-> PyNone]
Value(x) == [ok |-> TRUE, val |-> x]

\* "error" in parsed
ContainsError(x) ==
    CASE x.t = "dict" -> Value(PyBool(<<"error">> \in DOMAIN x.v))
      [] x.t = "list" ->
            Value(PyBool(\E i \in 1..Len(x.v) :
                            x.v[i].t = "str" /\ x.v[i].v = <<"error">>))
      [] x.t = "str" -> Value(PyBool(\E i \in 1..Len(x.v) : x.v[i] = "error"))
      [] OTHER -> Raised

\* parsed.get(key)
DictGet(x, key) ==
    IF x.t # "dict" THEN Raised
    ELSE IF key \in DOMAIN x.v THEN Value(x.v[key])
    ELSE Value(PyNone)

\* Only a percent sign at the end removed: .rstrip("%")
RECURSIVE RemoveTrailingPercent(_)
RemoveTrailingPercent(s) ==
    IF s # <<>> /\ s[Len(s)] = "%"
    THEN RemoveTrailingPercent(SubSeq(s, 1, Len(s) - 1))
    ELSE s

\* .replace("%", "")
RemovePercent(s) == Remove(s, "%")

\* int(parsed["JD Match"].replace("%", "").strip())
MatchValue(x) ==
    IF x.t # "dict" THEN [ok |-> FALSE, val |-> 0]
    ELSE IF <<"JD Match">> \notin DOMAIN x.v THEN [ok |-> FALSE, val |-> 0]
    ELSE IF x.v[<<"JD Match">>].t # "str" THEN [ok |-> FALSE, val |-> 0]
    ELSE IntOfStr(Strip(RemovePercent(x.v[<<"JD Match">>].v)))

\* st.progress(match_value / 100) takes a float from 0.0 to 1.0 and raises
\* on any other.
ProgressAccepts(match_value) == 0 <= match_value /\ match_value <= 100

\* Lines 192-197.
GaugeBlock(x) ==
    LET m == MatchValue(x)
    IN  IF m.ok /\ ProgressAccepts(m.val)
        THEN [shown |-> <<"progress", "metric">>, gauge |-> m.val]
        ELSE [shown |-> <<"json">>, gauge |-> 0]

\* for kw in value
Iterable(x) == x.t \in {"list", "str", "dict"}

\* Lines 186-207 on the parsed response.
RenderEvaluation(x) ==
    LET has == ContainsError(x)
        g == GaugeBlock(x)
        kw == DictGet(x, <<"MissingKeywords">>)
        ps == DictGet(x, <<"Profile Summary">>)
        head == <<"subheader">>
        upto_gauge == head \o g.shown
        upto_kw == upto_gauge
                   \o (IF Truthy(kw.val) THEN <<"write", "write">> ELSE <<>>)
        upto_ps == upto_kw
                   \o (IF Truthy(ps.val) THEN <<"write", "info">> ELSE <<>>)
    IN  IF ~has.ok THEN Crashes(head)
        ELSE IF has.val.v
             THEN IF x.t = "dict" THEN Shows(head \o <<"warning", "text">>)
                  ELSE Crashes(head \o <<"warning">>)
        ELSE IF ~kw.ok \/ (Truthy(kw.val) /\ ~Iterable(kw.val))
             THEN [shown |-> upto_gauge, crashed |-> TRUE, gauge |-> g.gauge]
        ELSE [shown |-> upto_ps, crashed |-> FALSE, gauge |-> g.gauge]

\* ----------------------------------------------------------------- the page

\* The job descriptions and the files the user is given to enter.
JobDescriptions == {<<>>, <<" ", "\n">>, <<"Go developer">>, <<" ", "Go developer", "\n">>}

TextPdf == Pdf(TRUE, <<PageText(PyStr(<<"Resume">>)), PageText(PyNone)>>, TRUE, <<>>)
ScannedPdf == Pdf(TRUE, <<PageText(PyStr(<<>>))>>, TRUE, << <<"Scanned">> >>)
BrokenPdf == Pdf(FALSE, <<>>, FALSE, <<>>)
BlankPdf == Pdf(TRUE, <<PageText(PyStr(<<" ">>))>>, TRUE, <<>>)

Files == {NoFile, TextPdf, ScannedPdf, BrokenPdf, BlankPdf}

IsGenerationError(x) ==
    x.t = "str" /\ x.v # <<>> /\ Head(x.v) = GenerationErrorPrefix
IsOcrError(x) ==
    x.t = "str" /\ x.v # <<>> /\ Head(x.v) = OcrErrorPrefix

Unwritten == [written |-> FALSE, extract_ok |-> FALSE, completion |-> "none"]

GeminiIdle ==
    /\ g_pc = "idle"
    /\ g_prompt = <<>>
    /\ g_json_mode = FALSE
    /\ g_retries = DefaultRetries
    /\ g_attempt = 0
    /\ g_calls = 0
    /\ g_raised = 0
    /\ g_sleeps = 0
    /\ g_last = NoOutcome
    /\ g_result = PyNone

GeminiReturned ==
    /\ g_pc' = "idle"
    /\ g_prompt' = <<>>
    /\ g_json_mode' = FALSE
    /\ g_retries' = DefaultRetries
    /\ g_attempt' = 0
    /\ g_calls' = 0
    /\ g_raised' = 0
    /\ g_sleeps' = 0
    /\ g_last' = NoOutcome
    /\ g_result' = PyNone

ParseIdle ==
    /\ p_pre = <<>>
    /\ p_obj = <<>>
    /\ p_suf = <<>>
    /\ p_pc = "idle"
    /\ p_result = PyNone

\* A script run starts: nothing displayed, no locals.
RunStarts ==
    /\ resume_text' = PyNone
    /\ response' = PyNone
    /\ parsed' = PyNone
    /\ n_extract' = 0
    /\ n_ocr' = 0
    /\ n_prompt' = 0

\* The user edits the job description or changes the upload; the script
\* reruns with neither button pressed.
UserInput ==
    /\ pc = "idle"
    /\ \E j \in JobDescriptions, f \in Files : jd' = j /\ uploaded_file' = f
    /\ event' = "input"
    /\ rendered' = Blank
    /\ RunStarts
    /\ UNCHANGED <<ss_resume_text, ss_jd, ss_origin, cache, pc>>
    /\ UNCHANGED <<g_vars, p_vars>>

\* The test without the strip: jd != ""
EvaluateInputsOkUnstripped(f, j) == f.present /\ j # <<>>

\* uploaded_file is not None and jd.strip() != ""
EvaluateInputsOk(f, j) == f.present /\ Strip(j) # <<>>

\* The job description stored trimmed.
SessionJdTrimmed(j) == PyStr(Strip(j))

\* st.session_state["jd"] = jd
SessionJd(j) == PyStr(j)

\* "Evaluate Resume" is pressed (lines 172-173, 208-209).
ClickEvaluate ==
    /\ pc = "idle"
    /\ event' = "evaluate"
    /\ RunStarts
    /\ IF EvaluateInputsOk(uploaded_file, jd)
       THEN pc' = "extract" /\ rendered' = Blank
       ELSE pc' = "idle" /\ rendered' = Shows(<<"warning">>)
    /\ UNCHANGED <<jd, uploaded_file, ss_resume_text, ss_jd, ss_origin, cache>>
    /\ UNCHANGED <<g_vars, p_vars>>

\* Lines 174-182: the text is extracted (or taken from the cache), stored in
\* the session with the job description, the prompt is built and
\* get_gemini_response is entered.
EvalExtract ==
    /\ pc = "extract"
    /\ LET hit == uploaded_file \in cache
           r == InputPdfText(uploaded_file)
       IN  IF r.kind = "raise"
           THEN /\ pc' = "idle"
                /\ rendered' = Crashes(<<>>)
                /\ n_extract' = 1
                /\ n_ocr' = IF r.ocr THEN 1 ELSE 0
                /\ UNCHANGED <<ss_resume_text, ss_jd, ss_origin, cache,
                               resume_text, n_prompt, g_vars>>
           ELSE /\ n_extract' = IF hit THEN 0 ELSE 1
                /\ n_ocr' = IF ~hit /\ r.ocr THEN 1 ELSE 0
                /\ cache' = cache \cup {uploaded_file}
                /\ resume_text' = r.value
                /\ ss_resume_text' = r.value
                /\ ss_jd' = SessionJd(jd)
                /\ ss_origin' = [written |-> TRUE,
                                 extract_ok |-> ~IsOcrError(r.value),
                                 completion |-> "pending"]
                /\ n_prompt' = 1
                /\ GeminiCall(EvaluationPrompt(r.value.v, jd), TRUE, DefaultRetries)
                /\ pc' = "complete"
                /\ UNCHANGED rendered
    /\ UNCHANGED <<jd, uploaded_file, event, response, parsed>>
    /\ UNCHANGED p_vars

\* Lines 184-207: the completion is parsed and displayed.
EvalRender ==
    /\ pc = "complete"
    /\ g_pc = "done"
    /\ response' = g_result
    /\ IF g_result.t = "str"
       THEN /\ parsed' = SafeJsonParse(g_result.v)
            /\ rendered' = RenderEvaluation(SafeJsonParse(g_result.v))
       ELSE /\ parsed' = PyNone
            /\ rendered' = Crashes(<<>>)
    /\ ss_origin' = [ss_origin EXCEPT
                       !.completion = IF IsGenerationError(g_result)
                                      THEN "failed" ELSE "ok"]
    /\ pc' = "idle"
    /\ GeminiReturned
    /\ UNCHANGED <<jd, uploaded_file, ss_resume_text, ss_jd, cache, event,
                   resume_text, n_extract, n_ocr, n_prompt>>
    /\ UNCHANGED p_vars

\* "Optimize Resume", shown only with both session values set, is pressed
\* (lines 212-215).
ClickOptimize ==
    /\ pc = "idle"
    /\ Truthy(ss_resume_text)
    /\ Truthy(ss_jd)
    /\ event' = "optimize"
    /\ RunStarts
    /\ rendered' = Blank
    /\ GeminiCall(OptimizationPrompt(ss_resume_text.v, ss_jd.v), FALSE, DefaultRetries)
    /\ pc' = "optimize"
    /\ UNCHANGED <<jd, uploaded_file, ss_resume_text, ss_jd, ss_origin, cache>>
    /\ UNCHANGED p_vars

\* Lines 217-233: the rewritten text is shown and offered for download.
OptRender ==
    /\ pc = "optimize"
    /\ g_pc = "done"
    /\ response' = g_result
    /\ rendered' = Shows(<<"subheader", "markdown", "download_txt", "download_pdf">>)
    /\ pc' = "idle"
    /\ GeminiReturned
    /\ UNCHANGED <<jd, uploaded_file, ss_resume_text, ss_jd, ss_origin, cache,
                   event, resume_text, parsed, n_extract, n_ocr, n_prompt>>
    /\ UNCHANGED p_vars

AppIdle ==
    /\ ss_resume_text = PyNone
    /\ ss_jd = PyNone
    /\ ss_origin = Unwritten
    /\ cache = {}
    /\ resume_text = PyNone
    /\ response = PyNone
    /\ parsed = PyNone
    /\ rendered = Blank
    /\ n_extract = 0
    /\ n_ocr = 0
    /\ n_prompt = 0

\* The page as first served.
Init ==
    /\ jd = <<>>
    /\ uploaded_file = NoFile
    /\ pc = "idle"
    /\ event = "start"
    /\ AppIdle
    /\ GeminiIdle
    /\ ParseIdle

Next ==
    \/ UserInput
    \/ ClickEvaluate
    \/ EvalExtract
    \/ GeminiStep
    \/ EvalRender
    \/ ClickOptimize
    \/ OptRender

Spec == Init /\ [][Next]_vars

\* -------------------------------------- get_gemini_response, any retries

InitGemini ==
    /\ jd = <<>>
    /\ uploaded_file = NoFile
    /\ pc = "idle"
    /\ event = "start"
    /\ AppIdle
    /\ ParseIdle
    /\ g_pc = "loop"
    /\ g_prompt = <<"prompt">>
    /\ g_json_mode \in BOOLEAN
    /\ g_retries \in 0..MaxRetries
    /\ g_attempt = 0
    /\ g_calls = 0
    /\ g_raised = 0
    /\ g_sleeps = 0
    /\ g_last = NoOutcome
    /\ g_result = PyNone

SpecGemini == InitGemini /\ [][GeminiStep]_vars

\* ------------------------------------------- input_pdf_text, any document

PageOutcomes ==
    {PageRaises, PageText(PyNone), PageText(PyStr(<<>>)), PageText(PyStr(<<" ">>)),
     PageText(PyStr(<<"a">>)), PageText(PyStr(<<"b", "\n">>))}

ImageTexts == {<<>>, << <<"o">> >>, << <<"o">>, <<"c", "r">> >>}

Pdfs ==
    {Pdf(r, pages, o, images) :
        r \in BOOLEAN, pages \in Texts(PageOutcomes, MaxPages),
        o \in BOOLEAN, images \in ImageTexts}

InitExtract ==
    /\ jd = <<"Go developer">>
    /\ uploaded_file \in Pdfs
    /\ pc = "extract"
    /\ event = "evaluate"
    /\ AppIdle
    /\ GeminiIdle
    /\ ParseIdle

SpecExtract == InitExtract /\ [][EvalExtract]_vars

\* ------------------------------------- rendering, any "JD Match" value

ValAlphabet == {"8", "3", "1", "0", "%", " ", "-", "N/A"}

RenderTexts ==
    {JsonObject("JD Match", JsonString(v)) : v \in Texts(ValAlphabet, MaxVal)}
    \cup {JsonObject("JD Match", <<"8", "3">>),
          JsonObject("JD Match", <<"null">>),
          JsonObject("Profile Summary", JsonString(<<"X">>))}

\* The handler with the completion just returned by the service.
InitRender ==
    /\ jd = <<"Go developer">>
    /\ uploaded_file = TextPdf
    /\ pc = "complete"
    /\ event = "evaluate"
    /\ ss_resume_text = PyStr(<<"Resume">>)
    /\ ss_jd = PyStr(jd)
    /\ ss_origin = [written |-> TRUE, extract_ok |-> TRUE, completion |-> "pending"]
    /\ cache = {TextPdf}
    /\ resume_text = PyStr(<<"Resume">>)
    /\ response = PyNone
    /\ parsed = PyNone
    /\ rendered = Blank
    /\ n_extract = 1
    /\ n_ocr = 0
    /\ n_prompt = 1
    /\ ParseIdle
    /\ g_pc = "done"
    /\ g_prompt = EvaluationPrompt(<<"Resume">>, jd)
    /\ g_json_mode = TRUE
    /\ g_retries = DefaultRetries
    /\ g_attempt = 0
    /\ g_calls = 1
    /\ g_raised = 0
    /\ g_sleeps = 0
    /\ \E t \in RenderTexts :
          /\ g_last = Returns(<< <<t>> >>, PyStr(t))
          /\ g_result = PyStr(t)

SpecRender == InitRender /\ [][EvalRender]_vars

\* ------------------------------------------- safe_json_parse, any text

RawAlphabet == {"{", "}", Q, ":", ",", "1", " ", "x"}
ProseAlphabet == {"Thanks!", "\n", "{", "}"}

Objects ==
    { <<"{", "}">>,
      JsonObject("JD Match", JsonString(<<"5", "0", "%">>)),
      JsonObject("a", <<"{", "}">>),
      <<"{", Q, "}", Q, ":", "1", "}">> }

ParseStep ==
    /\ p_pc = "call"
    /\ p_result' = SafeJsonParse(p_pre \o p_obj \o p_suf)
    /\ p_pc' = "done"
    /\ UNCHANGED <<p_pre, p_obj, p_suf>>
    /\ UNCHANGED <<app_vars, g_vars>>

InitParse ==
    /\ jd = <<>>
    /\ uploaded_file = NoFile
    /\ pc = "idle"
    /\ event = "start"
    /\ AppIdle
    /\ GeminiIdle
    /\ p_pc = "call"
    /\ p_result = PyNone
    /\ p_obj \in Objects \cup {<<>>}
    /\ IF p_obj = <<>>
       THEN p_pre \in Texts(RawAlphabet, MaxRaw) /\ p_suf = <<>>
       ELSE p_pre \in Texts(ProseAlphabet, MaxProse)
            /\ p_suf \in Texts(ProseAlphabet, MaxProse)

SpecParse == InitParse /\ [][ParseStep]_vars
\* ------------------------------------------------------------------ claims

\* C1 (as stated; checked under SpecGemini).  For every retries, when every
\* service call raises, get_gemini_response makes exactly retries service
\* calls and then returns the error-prefixed string.
C1_ExactlyMaxAttempts ==
    (g_pc = "done" /\ g_raised = g_calls)
        => (g_calls = g_retries /\ IsGenerationError(g_result))

\* C2 (as stated; Spec).  Wherever the session holds the values of an
\* Evaluate action, that action's extraction and completion have succeeded.
C2_SetOnlyAfterSuccess ==
    ss_origin.written => (ss_origin.extract_ok /\ ss_origin.completion = "ok")

\* A document is present and the job description has a character that is
\* not whitespace.
InputsPresent == uploaded_file.present /\ \E i \in 1..Len(jd) : jd[i] \notin Whitespace

\* C2 (amended; Spec).  The session values change only in the step of an
\* Evaluate action, with both inputs present, that follows the return of the
\* extraction and precedes the first service call; they become the returned
\* text, error string or not, and the job description as entered; every such
\* step sets them, and nothing later in the action (a failed completion
\* included) changes them.
C2_SetAtExtraction ==
    [][ /\ (ss_resume_text' # ss_resume_text \/ ss_jd' # ss_jd)
            => /\ pc = "extract" /\ pc' = "complete"
               /\ event = "evaluate"
               /\ InputsPresent
        /\ (pc = "extract" /\ pc' = "complete")
            => /\ ss_resume_text' = resume_text'
               /\ ss_jd' = PyStr(jd)
               /\ g_calls' = 0
        /\ pc = "complete" => UNCHANGED <<ss_resume_text, ss_jd>>
      ]_vars

\* C2 witness: the session holds an extraction error string and the job
\* description of an evaluation whose completion then failed.
C2_Witness ==
    /\ pc = "idle"
    /\ event = "evaluate"
    /\ ss_origin = [written |-> TRUE, extract_ok |-> FALSE, completion |-> "failed"]
    /\ IsOcrError(ss_resume_text)
    /\ ss_jd = PyStr(jd)
    /\ IsGenerationError(response)

\* C3 (Spec).  An Evaluate action without both a document and a job
\* description that is non-empty after trimming ends at once with the
\* warning: no extraction, no OCR, no prompt, no service call, and the
\* session values and the cache as they were.
C3_RejectedBeforeAnyStage ==
    [][ (pc = "idle" /\ event' = "evaluate" /\ ~InputsPresent)
            => /\ pc' = "idle"
               /\ rendered' = Shows(<<"warning">>)
               /\ n_extract' = 0 /\ n_ocr' = 0 /\ n_prompt' = 0
               /\ g_pc' = "idle" /\ g_calls' = 0
               /\ UNCHANGED <<ss_resume_text, ss_jd, cache>>
      ]_vars

\* C3 witness: Evaluate was rejected for a whitespace-only job description
\* with a document uploaded, the session still holding an earlier
\* evaluation's values.
C3_Witness ==
    /\ pc = "idle"
    /\ event = "evaluate"
    /\ uploaded_file.present
    /\ jd = <<" ", "\n">>
    /\ rendered = Shows(<<"warning">>)
    /\ ss_origin.written
    /\ n_extract = 0 /\ n_prompt = 0 /\ g_calls = 0

\* PdfReader or a page's extract_text raises.
DirectRaises(doc) == ~doc.reader_ok \/ \E i \in 1..Len(doc.pages) : ~doc.pages[i].ok

\* C4 (as stated; SpecExtract).  If either stage raises, input_pdf_text
\* returns an error string and no exception leaves it.
C4_EitherStageErrorString ==
    (pc # "extract" /\ (DirectRaises(uploaded_file)
                        \/ (n_ocr = 1 /\ ~uploaded_file.ocr_ok)))
        => (pc = "complete" /\ IsOcrError(resume_text))

\* C4 (amended; SpecExtract).  No exception leaves input_pdf_text; it returns
\* the error string whenever the OCR fallback raises; when the direct stage
\* raises the OCR fallback runs, and if that succeeds the result is the
\* recognised text, not an error string.
C4_OcrErrorString ==
    pc # "extract"
        => /\ pc = "complete"
           /\ ~rendered.crashed
           /\ resume_text.t = "str"
           /\ (n_ocr = 1 /\ ~uploaded_file.ocr_ok) => IsOcrError(resume_text)
           /\ DirectRaises(uploaded_file) => n_ocr = 1
           /\ (DirectRaises(uploaded_file) /\ uploaded_file.ocr_ok)
                => ~IsOcrError(resume_text)

\* C4 witness: a page raised, then OCR raised, and the error string came back.
C4_Witness ==
    /\ pc = "complete"
    /\ uploaded_file.reader_ok
    /\ DirectRaises(uploaded_file)
    /\ ~uploaded_file.ocr_ok
    /\ n_ocr = 1
    /\ resume_text = PyStr(<<OcrErrorPrefix, " ", "tesseract failed">>)

\* C5 (as stated; Spec).  Whatever completion the Evaluate action receives,
\* it ends with a gauge, the raw record or the raw text displayed, and with
\* no uncaught exception.
C5_AlwaysRendered ==
    (pc = "idle" /\ event = "evaluate" /\ response.t = "str")
        => /\ ~rendered.crashed
           /\ \E i \in 1..Len(rendered.shown) :
                 rendered.shown[i] \in {"metric", "json", "text"}

\* Some span of s from a "{" to a later "}" is valid JSON.
SomeBraceSpanParses(s) ==
    \E i, j \in 1..Len(s) :
        i < j /\ s[i] = "{" /\ s[j] = "}" /\ JsonLoads(SubSeq(s, i, j)).ok

\* C6 (SpecParse).  On a text that is not valid JSON and has no
\* brace-delimited span that is, safe_json_parse returns a record with an
\* error field and a raw field, the raw field being the text exactly.
C6_ErrorRecordKeepsRaw ==
    LET raw == p_pre \o p_obj \o p_suf
    IN  (p_pc = "done" /\ ~JsonLoads(raw).ok /\ ~SomeBraceSpanParses(raw))
            => /\ p_result.t = "dict"
               /\ DOMAIN p_result.v = {<<"error">>, <<"raw">>}
               /\ p_result.v[<<"raw">>] = PyStr(raw)
               /\ p_result.v[<<"error">>].t = "str"

\* C6 witness: a text with surrounding whitespace and a brace span that does
\* not parse came back whole in the raw field.
C6_Witness ==
    /\ p_pc = "done"
    /\ p_pre = <<" ", "{", "x", "}">>
    /\ p_obj = <<>>
    /\ p_result = ErrorRecord("Failed to parse JSON", p_pre)

\* C7 (as stated; SpecParse).  For a JSON object J in prose P, S with P+J+S
\* not valid JSON, safe_json_parse(P+J+S) = safe_json_parse(J).
C7_EmbeddedObject ==
    LET raw == p_pre \o p_obj \o p_suf
    IN  (p_pc = "done" /\ p_obj # <<>> /\ ~JsonLoads(raw).ok)
            => p_result = SafeJsonParse(p_obj)

Has(s, c) == \E i \in 1..Len(s) : s[i] = c

\* C7 (amended; SpecParse).  The same, for prose P with no "{" and prose S
\* with no "}".
C7_EmbeddedObjectCleanProse ==
    LET raw == p_pre \o p_obj \o p_suf
    IN  (p_pc = "done" /\ p_obj # <<>> /\ ~JsonLoads(raw).ok
         /\ ~Has(p_pre, "{") /\ ~Has(p_suf, "}"))
            => p_result = SafeJsonParse(p_obj)

\* C7 witness: a nested object between two lines of prose was extracted.
C7_Witness ==
    /\ p_pc = "done"
    /\ p_pre = <<"Thanks!", "\n">>
    /\ p_obj = JsonObject("a", <<"{", "}">>)
    /\ p_suf = <<"\n", "Thanks!">>
    /\ p_result = PyDict(DictSet(EmptyDict, <<"a">>, PyDict(EmptyDict)))

\* The document opens, no page raises, and some page has a character that
\* is not whitespace.
HasTextLayers(doc) ==
    /\ doc.reader_ok
    /\ \A i \in 1..Len(doc.pages) : doc.pages[i].ok
    /\ \E i \in 1..Len(doc.pages) :
          /\ doc.pages[i].text.t = "str"
          /\ \E k \in 1..Len(doc.pages[i].text.v) :
                doc.pages[i].text.v[k] \notin Whitespace

\* The text of page i, empty for a page without text.
C8_PageText(doc, i) ==
    IF doc.pages[i].text.t = "str" THEN doc.pages[i].text.v ELSE <<>>

\* The number of atoms on the pages before page i.
RECURSIVE C8_Offset(_, _)
C8_Offset(doc, i) ==
    IF i = 1 THEN 0 ELSE C8_Offset(doc, i - 1) + Len(C8_PageText(doc, i - 1))

\* C8 (SpecExtract).  For a PDF with extractable text, input_pdf_text
\* returns the pages' texts one after the other in page order, a page
\* without text giving nothing, and the OCR fallback does not run.
C8_DirectTextInPageOrder ==
    (pc # "extract" /\ HasTextLayers(uploaded_file))
        => LET doc == uploaded_file
               n == Len(doc.pages)
           IN  /\ pc = "complete"
               /\ n_ocr = 0
               /\ resume_text.t = "str"
               /\ Len(resume_text.v) = C8_Offset(doc, n) + Len(C8_PageText(doc, n))
               /\ \A i \in 1..n : \A k \in 1..Len(C8_PageText(doc, i)) :
                     resume_text.v[C8_Offset(doc, i) + k] = C8_PageText(doc, i)[k]

\* C8 witness: two pages, the second ending in a newline, came back joined.
C8_Witness ==
    /\ pc = "complete"
    /\ uploaded_file.pages = <<PageText(PyStr(<<"a">>)), PageText(PyStr(<<"b", "\n">>))>>
    /\ uploaded_file.reader_ok
    /\ resume_text = PyStr(<<"a", "b", "\n">>)
    /\ n_extract = 1
    /\ n_ocr = 0

\* The Evaluate action has displayed a record that has no error field.
C9_Displayed ==
    /\ pc = "idle"
    /\ event = "evaluate"
    /\ parsed.t = "dict"
    /\ <<"error">> \notin DOMAIN parsed.v

\* The same, the record's "JD Match" being a string.
C9_Rendered ==
    /\ C9_Displayed
    /\ <<"JD Match">> \in DOMAIN parsed.v
    /\ parsed.v[<<"JD Match">>].t = "str"

C9_GaugeShown == \E i \in 1..Len(rendered.shown) : rendered.shown[i] = "metric"
C9_RecordShown == \E i \in 1..Len(rendered.shown) : rendered.shown[i] = "json"

\* The claim's normalisation: trim, drop one percent sign at the end, trim,
\* read as an integer.
C9_TrailingPercent(v) ==
    LET t == Strip(v)
        u == IF t # <<>> /\ t[Len(t)] = "%" THEN SubSeq(t, 1, Len(t) - 1) ELSE t
    IN  IntOfStr(Strip(u))

\* C9 (as stated; SpecRender).  The gauge is shown exactly when the value,
\* less a trailing percent sign and surrounding whitespace, reads as an
\* integer; otherwise the raw record is shown.
C9_GaugeIffTrailingPercent ==
    C9_Rendered
        => LET m == C9_TrailingPercent(parsed.v[<<"JD Match">>].v)
           IN  /\ C9_GaugeShown <=> m.ok
               /\ C9_GaugeShown => rendered.gauge = m.val
               /\ ~C9_GaugeShown => C9_RecordShown

\* C9 (amended; SpecRender).  The gauge is shown, with that number, exactly
\* when the value is a string that, with every percent sign removed,
\* wherever it stands, and the surrounding whitespace trimmed, reads as an
\* integer from 0 to 100; in every other case (a number out of that range,
\* no number, a value that is not a string, no value) the raw record is
\* shown instead.
C9_GaugeIffPercentFree ==
    /\ C9_Rendered
        => LET v == parsed.v[<<"JD Match">>].v
               m == IntOfStr(SelectSeq(v, LAMBDA c : c # "%"))
           IN  /\ C9_GaugeShown <=> (m.ok /\ m.val \in 0..100)
               /\ C9_GaugeShown => rendered.gauge = m.val
    /\ (C9_Displayed /\ ~C9_Rendered) => ~C9_GaugeShown
    /\ C9_Displayed => (C9_GaugeShown <=> ~C9_RecordShown)

\* C9 witness: "83%" gave the gauge at 83.
C9_Witness ==
    /\ C9_Rendered
    /\ parsed.v[<<"JD Match">>].v = <<"8", "3", "%">>
    /\ C9_GaugeShown
    /\ rendered.gauge = 83

\* What C10 says is returned for a response.
C10_Text(o) ==
    IF o.candidates # <<>> /\ Head(o.candidates) # <<>>
    THEN PyStr(Head(Head(o.candidates)))
    ELSE IF o.text.t = "str" THEN o.text
    ELSE PyStr(<<>>)

\* C10 (as stated; SpecGemini).  When a service call returns without
\* raising, get_gemini_response returns at once: the first candidate's first
\* part's text if present, else the response's text, else "".
C10_ReturnsAtOnce ==
    (g_calls > 0 /\ ~g_last.raises)
        => (g_pc = "done" /\ g_result = C10_Text(g_last))
====
